---- MODULE Spec2Model ----
(***************************************************************************)
(* A model of the e-book reader: the EPUB paginator and reader session of  *)
(* formatted_reader_view.py and the cancellable image loader of            *)
(* cbz_reader_view.py.                                                     *)
(*                                                                         *)
(* The measurement buffer (a Tk Text widget) is a sequence of logical      *)
(* lines, one per block, each followed by a newline; an index of the       *)
(* widget is a character offset from "1.0".  A line is [len, tag]: its     *)
(* number of characters and the heading tag its characters carry.          *)
(***************************************************************************)
EXTENDS Integers, Sequences, FiniteSets, TLC

VARIABLES
    \* ---- EPUB reader (ReaderWindow) ----
    buffer,          \* self._buffer: the lines of the chapter being measured
    pages,           \* self.pages: sequence of [start, end] offsets
    canvasH,         \* self.main_frame.winfo_height()
    wrapW,           \* characters per display line at the buffer's width
    built,           \* pagination run of PagSpec: "no", "yes" or "diverged"
    ready,           \* _resize_text_canvas has run: the reader's state exists
    laidOut,         \* self.text_canvas.winfo_height() >= 10
    current_chapter, \* self.current_chapter
    current_page,    \* self.current_page
    pending,         \* callbacks scheduled with self.after, in firing order
    raised,          \* a handler has ended in an exception
    lastOp,          \* the handler that ran last, and its branch
    lastPaged,       \* index and origin of the last pagination completed
    pagedH,          \* the canvasH self.pages was built for
    memo,            \* per chapter content: the page list first built for
                     \* it since the viewport last changed, or <<>>
    \* ---- CBZ reader (CBZReaderWindow) ----
    current_index,   \* self.current_index
    boot,            \* the after(50, _schedule_image_update) of __init__ is due
    update_id,       \* the after(50, _load_current_image) of self._update_id is due
    load_timers,     \* how many after(50, _load_current_image) timers are due
    burst,           \* a key or resize event came since the last timer expiry
    images,          \* self.images: the sorted names of the image entries
    cancel_worker,   \* self._cancel_worker: the Event object it refers to
    set_events,      \* the Event objects that are set
    workers,         \* the worker threads, in request order
    shown,           \* the image on self.canvas: the request that put it
                     \* there, its index, and the latest request at that time
    bad,             \* the archive entries that cannot be read or decoded
    quiet,           \* the user has stopped navigating and resizing
    \* ---- Application (LibraryApp, TkDisplay) ----
    current_view,    \* self.current_view
    selected_index,  \* self.display.selected_index
    current_book_path, \* self.current_book_path: index of the book in the library
    modal_active,    \* self.modal_active
    modal_index,     \* self.modal_index
    bookmarks,       \* self.bookmarks: per book, NoBookmark or [chap, page]
    lastDrop,        \* per book: what the last Drop Bookmark made in it read
    dropPos,         \* the reader's position at the last Drop Bookmark since
                     \* the book was opened, or NoBookmark
    \* ---- The book and the functions applied on their own ----
    unreadable,      \* the chapters whose item.get_content() raises
    arg,             \* the argument a function is applied to
    result           \* what the function has made of it, or NoResult

pagVars == <<built>>
epubVars == <<ready, laidOut, current_chapter, current_page, pending, raised,
              lastOp, lastPaged, pagedH, memo>>
sharedVars == <<buffer, pages, canvasH, wrapW>>
cbzVars == <<current_index, boot, update_id, load_timers, burst, images, cancel_worker,
             set_events, workers, shown, bad, quiet>>
appVars == <<current_view, selected_index, current_book_path, modal_active,
             modal_index, bookmarks, lastDrop, dropPos>>
docVars == <<unreadable, arg, result>>
vars == <<sharedVars, pagVars, epubVars, cbzVars, appVars, docVars>>

----------------------------------------------------------------------------
\* Program constants of formatted_reader_view.py
WINDOW_HEIGHT == 480
FONT_SIZE_DEFAULT == 14
PAGE_MARGIN == 16
FooterDefault == 40
FudgeLines == 2
BottomMargin == 4
ParagraphSpacing == 6
ChunkChars == 50

\* Bounds of the model
MaxLines == 2

Max(a, b) == IF a >= b THEN a ELSE b
Min(a, b) == IF a <= b THEN a ELSE b

----------------------------------------------------------------------------
\* The text widget as a character stream

\* Number of characters of the inserted text: every line and its newline.
RECURSIVE StreamLen(_)
StreamLen(buf) ==
    IF buf = <<>> THEN 0 ELSE Head(buf).len + 1 + StreamLen(Tail(buf))

\* index("end-1c"): the offset of the widget's own final newline.
BufEnd(buf) == StreamLen(buf)

\* index("end"): the position after the widget's own final newline.
EndIndex(buf) == StreamLen(buf) + 1

\* Logical line (1-based) and column of an offset; offset BufEnd(buf) is
\* column 0 of the line after the last inserted one.
RECURSIVE LineOf(_, _)
LineOf(buf, off) ==
    IF buf = <<>> \/ off <= Head(buf).len THEN 1
    ELSE 1 + LineOf(Tail(buf), off - Head(buf).len - 1)

RECURSIVE ColOf(_, _)
ColOf(buf, off) ==
    IF buf = <<>> \/ off <= Head(buf).len THEN off
    ELSE ColOf(Tail(buf), off - Head(buf).len - 1)

LineLen(buf, ln) == IF ln <= Len(buf) THEN buf[ln].len ELSE 0

\* get(idx, idx +1c) = "\n": the character at the offset is a newline.
IsNewline(buf, off) == ColOf(buf, off) = LineLen(buf, LineOf(buf, off))

\* tag_names(idx): the heading tag of the character at the offset; the
\* newline after a block is inserted without tags.
TagAt(buf, off) ==
    IF IsNewline(buf, off) THEN "base" ELSE buf[LineOf(buf, off)].tag

----------------------------------------------------------------------------
\* Text metrics

\* font.metrics("linespace") of self._fonts[tag]
LineSpace(tag) ==
    CASE tag = "h1" -> 24
      [] tag = "h2" -> 22
      [] tag = "h3" -> 20
      [] OTHER -> FONT_SIZE_DEFAULT + 4

\* Display lines a logical line of n characters wraps to at width w.
DisplayLinesOf(n, w) == Max(1, (n + w - 1) \div w)

RECURSIVE RowsBefore(_, _, _)
RowsBefore(buf, ln, w) ==
    IF ln <= 1 \/ buf = <<>> THEN 0
    ELSE DisplayLinesOf(Head(buf).len, w) + RowsBefore(Tail(buf), ln - 1, w)

\* The display line an offset lies on.
RowOf(buf, off, w) ==
    LET ln == LineOf(buf, off)
    IN  RowsBefore(buf, ln, w)
          + Min(ColOf(buf, off) \div w, DisplayLinesOf(LineLen(buf, ln), w) - 1)

\* self._buffer.count(a, b, "displaylines")[0]
CountDisplayLines(buf, a, b, w) == RowOf(buf, b, w) - RowOf(buf, a, w)

----------------------------------------------------------------------------
\* ReaderWindow._build_pages

pick_font_for_index(buf, idx) ==
    LET tag == TagAt(buf, idx)
    IN  CASE tag = "h1" -> [linespace |-> LineSpace("h1"), spacing1 |-> 8, spacing3 |-> 8]
          [] tag = "h2" -> [linespace |-> LineSpace("h2"), spacing1 |-> 6, spacing3 |-> 6]
          [] tag = "h3" -> [linespace |-> LineSpace("h3"), spacing1 |-> 4, spacing3 |-> 4]
          [] OTHER -> [linespace |-> LineSpace("base"), spacing1 |-> 0, spacing3 |-> 0]

\* visible_height after the fudge lines are taken off
VisibleHeight(h) ==
    Max(1, h - 2 * PAGE_MARGIN - FooterDefault) - FudgeLines * LineSpace("base")

\* The height budget of one page: visible_height - bottom_margin
BudgetWithoutFudge(h) ==
    Max(1, h - 2 * PAGE_MARGIN - FooterDefault) - BottomMargin
Budget(h) == VisibleHeight(h) - BottomMargin

ChunkEnd(buf, idx) == Min(idx + ChunkChars, BufEnd(buf))

\* added_height of the chunk that starts at idx
AddedHeight(buf, w, idx) ==
    LET chunk_end == ChunkEnd(buf, idx)
        n == CountDisplayLines(buf, idx, chunk_end, w)
        display_lines == IF n = 0 THEN 1 ELSE n
        f == pick_font_for_index(buf, idx)
    IN  display_lines * f.linespace + f.spacing1 + f.spacing3
          + (IF IsNewline(buf, chunk_end) THEN ParagraphSpacing ELSE 0)

\* The chunk that does not fit: the first chunk of a page is included anyway.
ForcedIdxStuck(page_start, idx, chunk_end) == idx
ForcedIdxAlways(page_start, idx, chunk_end) == chunk_end
ForcedIdx(page_start, idx, chunk_end) ==
    IF idx = page_start THEN chunk_end ELSE idx

\* The inner loop: the offset at which the page that starts at page_start
\* ends.  fuel bounds the unfolding by the number of chunks there can be.
RECURSIVE FillPage(_, _, _, _, _, _, _)
FillPage(buf, w, budget, page_start, idx, used_pixels, fuel) ==
    LET chunk_end == ChunkEnd(buf, idx)
        added_height == AddedHeight(buf, w, idx)
    IN  IF fuel = 0 THEN idx
        ELSE IF used_pixels + added_height > budget
        THEN ForcedIdx(page_start, idx, chunk_end)
        ELSE IF chunk_end >= BufEnd(buf) THEN chunk_end
        ELSE FillPage(buf, w, budget, page_start, chunk_end,
                      used_pixels + added_height, fuel - 1)

\* start_index = idx: the next page starts where this one ends.
NextStartSkips(idx) == idx + 1
NextStart(idx) == idx

\* The outer loop.  A run that uses up its fuel stands for a loop that does
\* not terminate: the stream has fewer characters than fuel.
RECURSIVE PageLoop(_, _, _, _, _, _)
PageLoop(buf, w, budget, start_index, acc, fuel) ==
    IF fuel = 0 THEN [pages |-> acc, done |-> FALSE]
    ELSE LET idx == FillPage(buf, w, budget, start_index, start_index, 0,
                             BufEnd(buf) + 1)
             more == Append(acc, [start |-> start_index, end |-> idx])
         IN  IF idx >= BufEnd(buf) THEN [pages |-> more, done |-> TRUE]
             ELSE PageLoop(buf, w, budget, NextStart(idx), more, fuel - 1)

BuildPagesRun(buf, w, h) ==
    IF 0 >= BufEnd(buf)
    THEN [pages |-> <<[start |-> 0, end |-> EndIndex(buf)]>>, done |-> TRUE]
    ELSE PageLoop(buf, w, Budget(h), 0, <<>>, BufEnd(buf) + 1)

\* A paginator that keeps the height used on the page shown before.
BuildPagesCarriesOver(buf, w, h) ==
    BuildPagesRun(buf, w, h - LineSpace("base") * current_page).pages

BuildPages(buf, w, h) == BuildPagesRun(buf, w, h).pages

----------------------------------------------------------------------------
\* Inputs of the paginator

LineLens == {20, 49, 50, 120}
Heights == {40, 130, 150}
Widths == {20, 60}

BodyLines == [len : LineLens, tag : {"base"}]

\* Chapters of ordinary blocks: every block has text.
BodyBuffers == UNION {[1..n -> BodyLines] : n \in 0..MaxLines}

\* A table of contents: an h1 heading, "\n\n", then the entries.
TocBuffers ==
    {<<[len |-> l, tag |-> "h1"], [len |-> 0, tag |-> "base"]>> \o b :
        l \in LineLens, b \in BodyBuffers}

Buffers == BodyBuffers \cup TocBuffers

----------------------------------------------------------------------------
\* The EPUB book: the chapters of self.spine_items, each as the buffer that
\* insert_html_into_buffer makes of it.

Line(n) == [len |-> n, tag |-> "base"]

Book == << <<Line(120)>>, <<>>, <<Line(50), Line(20)>> >>

\* What insert_html_into_buffer makes of "<p>[Could not load content]</p>".
PlaceholderBuffer == <<Line(24)>>

\* The buffer load_chapter fills for a chapter: item.get_content() and the
\* decoding raise for the chapters of unreadable.
ContentUnguarded(index) == Book[index + 1]
Content(index) ==
    IF index \in unreadable THEN PlaceholderBuffer ELSE Book[index + 1]

EpubHeights == {130, 150}
EpubWidths == {60}

\* Bounds of the reader model
MaxPending == 2

NoPaged == [index |-> -1, origin |-> "none", again |-> FALSE]
NoMemo == [b \in {Book[i] : i \in 1..Len(Book)} \cup {PlaceholderBuffer} |-> <<>>]

\* Values of the reader's variables while another part of the program runs.
EpubIdle ==
    /\ ready = FALSE
    /\ laidOut = FALSE
    /\ current_chapter = 0
    /\ current_page = 0
    /\ pending = <<>>
    /\ raised = FALSE
    /\ lastOp = "none"
    /\ lastPaged = NoPaged
    /\ pagedH = 0
    /\ memo = NoMemo

NoImage == [req |-> 0, idx |-> -1, latest |-> 0]

\* Values of the CBZ reader's variables while another part of the program runs.
CbzIdle ==
    /\ current_index = 0
    /\ boot = FALSE
    /\ update_id = FALSE
    /\ load_timers = 0
    /\ burst = FALSE
    /\ images = <<>>
    /\ cancel_worker = 0
    /\ set_events = {}
    /\ workers = <<>>
    /\ shown = NoImage
    /\ bad = {}
    /\ quiet = FALSE

\* The library: the books load_library finds, EPUBs before CBZs.
Library == <<"epub", "cbz">>
Books == 0..Len(Library) - 1

\* getattr(reader, name, None) when the reader has no such attribute.
None == -1

NoBookmark == [chap |-> -2, page |-> -2]
NoBookmarks == [b \in Books |-> NoBookmark]

\* Values of the application's variables while one reader is looked at alone.
\* Every chapter can be read, and no function is being applied on its own.
NoResult == [done |-> FALSE, value |-> <<>>]

DocIdle ==
    /\ unreadable = {}
    /\ arg = <<>>
    /\ result = NoResult

AppIdle ==
    /\ current_view = "reader"
    /\ selected_index = 0
    /\ current_book_path = 0
    /\ modal_active = FALSE
    /\ modal_index = 0
    /\ bookmarks = NoBookmarks
    /\ lastDrop = NoBookmarks
    /\ dropPos = NoBookmark

----------------------------------------------------------------------------
\* PagSpec: the paginator applied to every buffer and viewport

PagInit ==
    /\ buffer \in Buffers
    /\ canvasH \in Heights
    /\ wrapW \in Widths
    /\ pages = <<>>
    /\ built = "no"
    /\ EpubIdle
    /\ CbzIdle
    /\ AppIdle
    /\ DocIdle

PagBuild ==
    /\ built = "no"
    /\ LET r == BuildPagesRun(buffer, wrapW, canvasH)
       IN  /\ pages' = r.pages
           /\ built' = IF r.done THEN "yes" ELSE "diverged"
    /\ UNCHANGED <<buffer, canvasH, wrapW, epubVars, cbzVars, appVars, docVars>>

PagNext == PagBuild

PagSpec == PagInit /\ [][PagNext]_vars

----------------------------------------------------------------------------
\* ReaderWindow: the reader session.  A handler works on the record of the
\* fields it reads and writes.

Reader ==
    [buffer |-> buffer, pages |-> pages, chapter |-> current_chapter,
     page |-> current_page, pending |-> pending, lastPaged |-> lastPaged,
     pagedH |-> pagedH, memo |-> memo]

SetReader(s) ==
    /\ buffer' = s.buffer
    /\ pages' = s.pages
    /\ current_chapter' = s.chapter
    /\ current_page' = s.page
    /\ pending' = s.pending
    /\ lastPaged' = s.lastPaged
    /\ pagedH' = s.pagedH
    /\ memo' = s.memo

display_page_unclamped(s) == s

\* display_page: the page index is clamped into the page list.
display_page(s) ==
    IF s.pages = <<>> THEN s
    ELSE [s EXCEPT !.page = Max(0, Min(s.page, Len(s.pages) - 1))]

\* _finish_paging(index): paginate what the buffer holds, go to page 0.
finish_paging(s, index, origin) ==
    LET built_pages == BuildPages(s.buffer, wrapW, canvasH)
    IN  display_page(
          [s EXCEPT !.pages = built_pages,
                    !.chapter = index,
                    !.page = 0,
                    !.lastPaged = [index |-> index, origin |-> origin,
                                   again |-> s.memo[s.buffer] # <<>>],
                    !.pagedH = canvasH,
                    !.memo = IF @[s.buffer] = <<>>
                             THEN [@ EXCEPT ![s.buffer] = built_pages]
                             ELSE @])

\* load_chapter(index): fill the buffer, then paginate now or, when the text
\* area is not laid out yet, from a callback 50 ms later.
load_chapter(s, index, origin) ==
    IF ~(0 <= index /\ index < Len(Book)) THEN s
    ELSE LET loaded == [s EXCEPT !.buffer = Content(index)]
         IN  IF ~laidOut
             THEN [loaded EXCEPT !.pending =
                      Append(@, [op |-> "finish", index |-> index, origin |-> origin])]
             ELSE finish_paging(loaded, index, origin)

\* Whether load_chapter may schedule one more callback within the bound.
CanLoad == laidOut \/ Len(pending) < MaxPending

EpubInit ==
    /\ buffer = <<>>
    /\ pages = <<>>
    /\ canvasH \in EpubHeights
    /\ wrapW \in EpubWidths
    /\ built = "no"
    /\ EpubIdle
    /\ CbzIdle
    /\ AppIdle
    /\ DocIdle

\* _resize_text_canvas, 100 ms after construction: places the text area,
\* creates the buffer and the state, and schedules the first chapter load.
ResizeTextCanvas ==
    /\ ~ready
    /\ ready' = TRUE
    /\ buffer' = <<>>
    /\ pages' = <<>>
    /\ current_chapter' = 0
    /\ current_page' = 0
    /\ pending' = Append(pending, [op |-> "load", index |-> 0, origin |-> "init"])
    /\ lastOp' = "setup"
    /\ UNCHANGED <<cbzVars, appVars, docVars>>
    /\ UNCHANGED <<canvasH, wrapW, built, laidOut, raised, lastPaged, pagedH, memo>>

\* The toolkit gives the placed text area its height.
Layout ==
    /\ ready
    /\ ~laidOut
    /\ laidOut' = TRUE
    /\ lastOp' = "layout"
    /\ UNCHANGED <<cbzVars, appVars, docVars>>
    /\ UNCHANGED <<sharedVars, built, ready, current_chapter, current_page,
                   pending, raised, lastPaged, pagedH, memo>>

\* The window is resized: main_frame gets another height.  No handler of the
\* reader is bound to the change.
Resize ==
    /\ \E h \in EpubHeights \ {canvasH} : canvasH' = h
    /\ memo' = NoMemo
    /\ lastOp' = "resize"
    /\ UNCHANGED <<cbzVars, appVars, docVars>>
    /\ UNCHANGED <<buffer, pages, wrapW, built, ready, laidOut, current_chapter,
                   current_page, pending, raised, lastPaged, pagedH>>

\* The next callback scheduled with self.after runs.
FirePending ==
    /\ pending # <<>>
    /\ LET cb == Head(pending)
           s == [Reader EXCEPT !.pending = Tail(pending)]
       IN  IF cb.op = "load"
           THEN /\ SetReader(load_chapter(s, cb.index, cb.origin))
                /\ lastOp' = "load"
           ELSE /\ SetReader(finish_paging(s, cb.index, cb.origin))
                /\ lastOp' = "finish"
    /\ UNCHANGED <<cbzVars, appVars, docVars>>
    /\ UNCHANGED <<canvasH, wrapW, built, ready, laidOut, raised>>

\* An event delivered before _resize_text_canvas has run finds no
\* current_page and no pages: AttributeError.
EarlyEvent ==
    /\ ~ready
    /\ raised' = TRUE
    /\ lastOp' = "error"
    /\ UNCHANGED <<cbzVars, appVars, docVars>>
    /\ UNCHANGED <<sharedVars, built, ready, laidOut, current_chapter,
                   current_page, pending, lastPaged, pagedH, memo>>

next_page_wraps(s) ==
    IF s.page + 1 < Len(s.pages)
    THEN display_page([s EXCEPT !.page = s.page + 1])
    ELSE load_chapter(s, (s.chapter + 1) % Len(Book), "next")

next_page_reloads(s) ==
    IF s.page + 1 < Len(s.pages)
    THEN display_page([s EXCEPT !.page = s.page + 1])
    ELSE IF s.chapter + 1 < Len(Book)
    THEN load_chapter(s, s.chapter, "next")
    ELSE s

next_page(s) ==
    IF s.page + 1 < Len(s.pages)
    THEN display_page([s EXCEPT !.page = s.page + 1])
    ELSE IF s.chapter + 1 < Len(Book)
    THEN load_chapter(s, s.chapter + 1, "next")
    ELSE s

NextBranch(s) ==
    IF s.page + 1 < Len(s.pages) THEN "next_turn"
    ELSE IF s.chapter + 1 < Len(Book) THEN "next_cross"
    ELSE "next_noop"

NextPage ==
    /\ ready
    /\ NextBranch(Reader) = "next_cross" => CanLoad
    /\ lastOp' = NextBranch(Reader)
    /\ SetReader(next_page(Reader))
    /\ UNCHANGED <<cbzVars, appVars, docVars>>
    /\ UNCHANGED <<canvasH, wrapW, built, ready, laidOut, raised>>

prev_page_off_by_one(s) ==
    IF s.page > 0
    THEN display_page([s EXCEPT !.page = s.page - 1])
    ELSE IF s.chapter >= 0
    THEN LET t == load_chapter(s, s.chapter - 1, "prev")
         IN  display_page([t EXCEPT !.page = Max(0, Len(t.pages) - 1)])
    ELSE s

prev_page(s) ==
    IF s.page > 0
    THEN display_page([s EXCEPT !.page = s.page - 1])
    ELSE IF s.chapter > 0
    THEN LET t == load_chapter(s, s.chapter - 1, "prev")
         IN  display_page([t EXCEPT !.page = Max(0, Len(t.pages) - 1)])
    ELSE s

PrevBranch(s) ==
    IF s.page > 0 THEN "prev_turn"
    ELSE IF s.chapter > 0 THEN "prev_cross"
    ELSE "prev_noop"

PrevPage ==
    /\ ready
    /\ PrevBranch(Reader) = "prev_cross" => CanLoad
    /\ lastOp' = PrevBranch(Reader)
    /\ SetReader(prev_page(Reader))
    /\ UNCHANGED <<cbzVars, appVars, docVars>>
    /\ UNCHANGED <<canvasH, wrapW, built, ready, laidOut, raised>>

Next ==
    \/ ResizeTextCanvas
    \/ Layout
    \/ Resize
    \/ FirePending
    \/ EarlyEvent
    \/ NextPage
    \/ PrevPage

Spec == EpubInit /\ [][Next]_vars

\* Weak fairness of FirePending, written out: FirePending is enabled exactly
\* when a callback is pending, and every step of it changes pending.
FirePendingRuns == []<>(pending = <<>>) \/ []<><<FirePending>>_vars

\* Callbacks scheduled with self.after run; the toolkit lays the window out.
FairSpec ==
    /\ Spec
    /\ WF_vars(ResizeTextCanvas)
    /\ FirePendingRuns
    /\ WF_vars(Layout)

----------------------------------------------------------------------------
\* CBZReaderWindow: the image loader.  A worker is [idx, pc, ev]: the index it
\* loads, where its thread stands, and the Event object its thread holds.

\* The archive: self.images, the sorted names of its image entries.
Archive == <<"p1.png", "p2.png">>
NumImages == Len(Archive)

\* The archives tried: one without an image entry, and one with two, of
\* which every entry can be decoded, or the last one cannot.
Archives == {<<>>, Archive}
BadSets == {{}, {NumImages - 1}}

\* Bounds of the loader model
MaxReq == 3

EpubUnused ==
    /\ buffer = <<>>
    /\ pages = <<>>
    /\ canvasH = WINDOW_HEIGHT
    /\ wrapW \in EpubWidths
    /\ built = "no"
    /\ EpubIdle

CbzInit ==
    /\ EpubUnused
    /\ AppIdle
    /\ DocIdle
    /\ current_index = 0
    /\ boot = TRUE
    /\ update_id = FALSE
    /\ load_timers = 0
    /\ burst = FALSE
    /\ images \in Archives
    /\ cancel_worker = 0
    /\ set_events = {}
    /\ workers = <<>>
    /\ shown = NoImage
    /\ bad \in IF images = <<>> THEN {{}} ELSE BadSets
    /\ quiet = FALSE

NotCbz == UNCHANGED <<sharedVars, pagVars, epubVars, appVars, docVars>>

\* self.winfo_exists(): the reader's frame is destroyed when the container
\* is cleared, which every change of view begins with.
WinfoExistsIgnored == current_view \in {"reader", "library"}
WinfoExists == current_view = "reader"

\* A navigation or resize event may still lead to a request within MaxReq.
CanRequest == update_id \/ Len(workers) + (IF boot THEN 1 ELSE 0) < MaxReq

\* _schedule_image_update: the timer self._update_id names is cancelled if
\* it is still due, and one new timer is scheduled.  The number of timers due.
ScheduleKeepsOld(n) == n + 1
ScheduleImageUpdate(n) == (IF update_id THEN n - 1 ELSE n) + 1

\* The delayed _schedule_image_update of __init__ runs.
BootFire ==
    /\ boot
    /\ boot' = FALSE
    /\ update_id' = TRUE
    /\ load_timers' = ScheduleImageUpdate(load_timers)
    /\ UNCHANGED <<current_index, burst, images, cancel_worker, set_events,
                   workers, shown, bad, quiet>>
    /\ NotCbz

\* <Configure>: _schedule_image_update cancels the pending load and
\* schedules a new one.
Configure ==
    /\ ~quiet
    /\ CanRequest
    /\ update_id' = TRUE
    /\ load_timers' = ScheduleImageUpdate(load_timers)
    /\ burst' = TRUE
    /\ UNCHANGED <<current_index, boot, images, cancel_worker, set_events,
                   workers, shown, bad, quiet>>
    /\ NotCbz

\* The test of next_page: a next image exists.
NextWaitsForWorkers ==
    /\ current_index + 1 < Len(images)
    /\ \A w \in 1..Len(workers) : workers[w].pc = "done"
NextInBounds == current_index + 1 < Len(images)

CbzNextPage ==
    /\ ~quiet
    /\ CanRequest
    /\ burst' = TRUE
    /\ IF NextInBounds
       THEN /\ current_index' = current_index + 1
            /\ update_id' = TRUE
            /\ load_timers' = ScheduleImageUpdate(load_timers)
       ELSE UNCHANGED <<current_index, update_id, load_timers>>
    /\ UNCHANGED <<boot, images, cancel_worker, set_events, workers, shown, bad,
                   quiet>>
    /\ NotCbz

\* The test of prev_page: a previous image exists.
PrevFromFirst == current_index >= 0
PrevInBounds == current_index > 0

CbzPrevPage ==
    /\ ~quiet
    /\ CanRequest
    /\ burst' = TRUE
    /\ IF PrevInBounds
       THEN /\ current_index' = current_index - 1
            /\ update_id' = TRUE
            /\ load_timers' = ScheduleImageUpdate(load_timers)
       ELSE UNCHANGED <<current_index, update_id, load_timers>>
    /\ UNCHANGED <<boot, images, cancel_worker, set_events, workers, shown, bad,
                   quiet>>
    /\ NotCbz

\* The user stops: no navigation and no resize from here on.
Stop ==
    /\ ~quiet
    /\ quiet' = TRUE
    /\ UNCHANGED <<current_index, boot, update_id, load_timers, burst, images,
                   cancel_worker, set_events, workers, shown, bad>>
    /\ NotCbz

\* The Event object a new request makes current: a fresh one.
FreshEventReused(n) == cancel_worker
FreshEvent(n) == n

\* _load_current_image, when its timer expires: set the current Event, make
\* a fresh one current, create the thread of the new worker.
LoadCurrentImage ==
    /\ load_timers > 0
    /\ load_timers' = load_timers - 1
    /\ burst' = FALSE
    /\ update_id' = (update_id /\ load_timers' > 0)
    /\ IF images = <<>> \/ ~WinfoExists
       THEN UNCHANGED <<cancel_worker, set_events, workers>>
       ELSE /\ set_events' = set_events \cup {cancel_worker}
            /\ cancel_worker' = FreshEvent(Len(workers) + 1)
            /\ workers' = Append(workers,
                  [idx |-> current_index, pc |-> "created", ev |-> -1])
    /\ UNCHANGED <<current_index, boot, images, shown, bad, quiet>>
    /\ NotCbz

\* The thread runs its target, lambda: worker(idx, self._cancel_worker): the
\* attribute is read now, by the thread.
WorkerStart(w) ==
    /\ workers[w].pc = "created"
    /\ workers' = [workers EXCEPT ![w].pc = "running", ![w].ev = cancel_worker]
    /\ UNCHANGED <<current_index, boot, update_id, load_timers, burst, images,
                   cancel_worker, set_events, shown, bad, quiet>>
    /\ NotCbz

\* The worker up to self.after(0, update_ui): z.read and Image.open, the
\* first test of the Event, thumbnail, convert and PhotoImage.  An exception
\* is caught and printed, and a set Event makes the worker return: the
\* thread ends and lets go of its Event.
FailedWorkerGoesOn(wk) == [wk EXCEPT !.pc = "scheduled"]
FailedWorker(wk) == [wk EXCEPT !.pc = "done", !.ev = -1]

WorkerRun(w) ==
    /\ workers[w].pc = "running"
    /\ workers' = [workers EXCEPT ![w] =
          IF @.idx \in bad THEN FailedWorker(@)
          ELSE IF @.ev \in set_events \/ ~WinfoExists
          THEN [@ EXCEPT !.pc = "done", !.ev = -1]
          ELSE [@ EXCEPT !.pc = "scheduled"]]
    /\ UNCHANGED <<current_index, boot, update_id, load_timers, burst, images,
                   cancel_worker, set_events, shown, bad, quiet>>
    /\ NotCbz

\* update_ui's test: the result is dropped.
NoIndexTest(w) == workers[w].ev \in set_events
Discarded(w) ==
    \/ workers[w].ev \in set_events
    \/ ~WinfoExists
    \/ current_index # workers[w].idx

\* update_ui, on the UI thread.
UpdateUI(w) ==
    /\ workers[w].pc = "scheduled"
    /\ IF Discarded(w)
       THEN /\ workers' = [workers EXCEPT ![w].pc = "done", ![w].ev = -1]
            /\ UNCHANGED shown
       ELSE /\ workers' = [workers EXCEPT ![w].pc = "done", ![w].ev = -1]
            /\ shown' = [req |-> w, idx |-> workers[w].idx,
                         latest |-> Len(workers)]
    /\ UNCHANGED <<current_index, boot, update_id, load_timers, burst, images,
                   cancel_worker, set_events, bad, quiet>>
    /\ NotCbz

WorkerStep(w) == WorkerStart(w) \/ WorkerRun(w)

CbzNext ==
    \/ BootFire
    \/ Configure
    \/ CbzNextPage
    \/ CbzPrevPage
    \/ Stop
    \/ LoadCurrentImage
    \/ \E w \in 1..Len(workers) : WorkerStart(w)
    \/ \E w \in 1..Len(workers) : WorkerRun(w)
    \/ \E w \in 1..Len(workers) : UpdateUI(w)

CbzSpec == CbzInit /\ [][CbzNext]_vars

\* show_library, or show_reader for another book, while the CBZ reader is
\* on the screen: clear_container destroys the reader's frame, and with it
\* the callbacks its timers were to run.  The threads of its workers go on,
\* and so do the keys bound with bind_all.
Close ==
    /\ current_view = "reader"
    /\ current_view' = "library"
    /\ selected_index' = 0
    /\ boot' = FALSE
    /\ update_id' = FALSE
    /\ load_timers' = 0
    /\ UNCHANGED <<current_index, burst, images, cancel_worker, set_events,
                   workers, shown, bad, quiet>>
    /\ UNCHANGED <<current_book_path, modal_active, modal_index, bookmarks,
                   lastDrop, dropPos>>
    /\ UNCHANGED <<sharedVars, pagVars, epubVars, docVars>>

\* The CBZ reader until and after it is closed.
CloseNext ==
    \/ BootFire
    \/ Configure /\ WinfoExists
    \/ CbzNextPage
    \/ CbzPrevPage
    \/ LoadCurrentImage
    \/ \E w \in 1..Len(workers) : WorkerStart(w)
    \/ \E w \in 1..Len(workers) : WorkerRun(w)
    \/ \E w \in 1..Len(workers) : UpdateUI(w)
    \/ Close

CloseSpec == CbzInit /\ [][CloseNext]_vars

\* Timers and UI callbacks run; the thread of the latest request runs.  The
\* threads of earlier requests may stay where they are for ever.
CbzFairSpec ==
    /\ CbzSpec
    /\ WF_vars(BootFire)
    /\ WF_vars(LoadCurrentImage)
    /\ WF_vars(\E w \in 1..Len(workers) : UpdateUI(w))
    /\ WF_vars(\E w \in 1..Len(workers) : w = Len(workers) /\ WorkerStep(w))

----------------------------------------------------------------------------
\* LibraryApp: the library, the reader view and its modal menu.  Only the
\* reader on the screen has state; a reader that was closed is destroyed.

ModalOptions == <<"Drop Bookmark", "Go to Bookmark", "Back to Library", "Cancel">>

IsEpub == Library[current_book_path + 1] = "epub"
EpubOpen == current_view = "reader" /\ IsEpub
CbzOpen == current_view = "reader" /\ ~IsEpub

\* A new ReaderWindow, or none: the values of EpubIdle.
EpubReset ==
    /\ ready' = FALSE
    /\ laidOut' = FALSE
    /\ current_chapter' = 0
    /\ current_page' = 0
    /\ pending' = <<>>
    /\ raised' = FALSE
    /\ lastOp' = "none"
    /\ lastPaged' = NoPaged
    /\ pagedH' = 0
    /\ memo' = NoMemo

\* No CBZReaderWindow: the values of CbzIdle.
CbzReset ==
    /\ current_index' = 0
    /\ boot' = FALSE
    /\ update_id' = FALSE
    /\ load_timers' = 0
    /\ burst' = FALSE
    /\ images' = <<>>
    /\ cancel_worker' = 0
    /\ set_events' = {}
    /\ workers' = <<>>
    /\ shown' = NoImage
    /\ bad' = {}
    /\ quiet' = FALSE

\* The reader variables when the container has been cleared.
NoReader ==
    /\ buffer' = <<>>
    /\ pages' = <<>>
    /\ canvasH' = WINDOW_HEIGHT
    /\ wrapW' = wrapW
    /\ built' = "no"
    /\ EpubReset
    /\ CbzReset

AppInit ==
    /\ EpubUnused
    /\ CbzIdle
    /\ DocIdle
    /\ current_view = "library"
    /\ selected_index = 0
    /\ current_book_path = None
    /\ modal_active = FALSE
    /\ modal_index = 0
    /\ bookmarks = NoBookmarks
    /\ lastDrop = NoBookmarks
    /\ dropPos = NoBookmark

\* The encoder is turned in the library: move_selection.
MoveSelection ==
    /\ current_view = "library"
    /\ UNCHANGED docVars
    /\ \E delta \in {-1, 1} :
          selected_index' = (selected_index + delta) % Len(Library)
    /\ UNCHANGED <<current_view, current_book_path, modal_active, modal_index,
                   bookmarks, lastDrop, dropPos>>
    /\ UNCHANGED <<sharedVars, pagVars, epubVars, cbzVars>>

\* The encoder is pressed in the library: show_reader(selected book) makes a
\* new ReaderWindow or CBZReaderWindow.
OpenSelection ==
    /\ current_view = "library"
    /\ UNCHANGED docVars
    /\ current_view' = "reader"
    /\ current_book_path' = selected_index
    /\ modal_active' = FALSE
    /\ modal_index' = 0
    /\ dropPos' = NoBookmark
    /\ UNCHANGED <<selected_index, bookmarks, lastDrop>>
    /\ buffer' = <<>>
    /\ pages' = <<>>
    /\ wrapW' = wrapW
    /\ built' = "no"
    /\ EpubReset
    /\ IF Library[selected_index + 1] = "epub"
       THEN /\ canvasH' \in EpubHeights
            /\ CbzReset
       ELSE /\ canvasH' = WINDOW_HEIGHT
            /\ current_index' = 0
            /\ boot' = TRUE
            /\ update_id' = FALSE
            /\ load_timers' = 0
            /\ burst' = FALSE
            /\ images' = Archive
            /\ cancel_worker' = 0
            /\ set_events' = {}
            /\ workers' = <<>>
            /\ shown' = NoImage
            /\ bad' = {}
            /\ quiet' = FALSE

\* The encoder is pressed in the reader while the menu is closed, and the
\* press is not dropped by the debounce: _open_modal.  show_reader sets
\* _last_action_time 0.3 s ahead, so the first press is taken 0.6 s after
\* the reader was made, when the 100 ms timer of _resize_text_canvas has run.
OpenModal ==
    /\ current_view = "reader"
    /\ UNCHANGED docVars
    /\ ~modal_active
    /\ IsEpub => ready
    /\ modal_active' = TRUE
    /\ modal_index' = 0
    /\ UNCHANGED <<current_view, selected_index, current_book_path, bookmarks,
                   lastDrop, dropPos>>
    /\ UNCHANGED <<sharedVars, pagVars, epubVars, cbzVars>>

\* The encoder is turned while the menu is open.
ModalRotate ==
    /\ current_view = "reader"
    /\ UNCHANGED docVars
    /\ modal_active
    /\ \E delta \in {-1, 1} :
          modal_index' = (modal_index + delta) % Len(ModalOptions)
    /\ UNCHANGED <<current_view, selected_index, current_book_path, modal_active,
                   bookmarks, lastDrop, dropPos>>
    /\ UNCHANGED <<sharedVars, pagVars, epubVars, cbzVars>>

\* The key bookmarks are stored under.
BookmarkKeyShared == Min(current_book_path, 0)
BookmarkKey == current_book_path

\* The user acts on an EPUB reader when it has answered the action before:
\* no delayed pagination is outstanding unless the text area is laid out.
Answered == laidOut \/ pending = <<>>

\* What Drop Bookmark reads: getattr(reader, "current_chapter", None) and
\* getattr(reader, "current_page", None).
ReadPosition ==
    IF IsEpub /\ ready
    THEN [chap |-> current_chapter, page |-> current_page]
    ELSE [chap |-> None, page |-> None]

\* Where the reader is: chapter and page of an EPUB, image of a CBZ.
Position ==
    IF IsEpub
    THEN [chap |-> current_chapter, page |-> current_page]
    ELSE [chap |-> 0, page |-> current_index]

\* Whether the menu stays open after an option was taken.
ModalStaysOnDrop(option) == option = "Drop Bookmark"
ModalAfterSelect(option) == FALSE

\* Go to Bookmark on an EPUB reader: display.load_chapter(chap), then
\* current_page = page and display.display_page().
ApplyBookmark(s, bm) ==
    display_page([load_chapter(s, bm.chap, "bookmark") EXCEPT !.page = bm.page])

\* Whether display_page had to clamp the stored page.
GotoBranch(s, bm) ==
    IF ApplyBookmark(s, bm).page = bm.page THEN "goto" ELSE "goto_clamped"

\* The encoder is pressed while the menu is open, and the press is not
\* dropped by the debounce: _select_modal_option.
SelectModalOption ==
    /\ current_view = "reader"
    /\ UNCHANGED docVars
    /\ modal_active
    /\ LET option == ModalOptions[modal_index + 1]
           bm == bookmarks[current_book_path]
       IN  /\ modal_active' = ModalAfterSelect(option)
           /\ UNCHANGED <<current_book_path, modal_index>>
           /\ CASE option = "Back to Library" ->
                    /\ current_view' = "library"
                    /\ selected_index' = 0
                    /\ NoReader
                    /\ dropPos' = NoBookmark
                    /\ UNCHANGED <<bookmarks, lastDrop>>
                [] option = "Drop Bookmark" ->
                    /\ bookmarks' = [bookmarks EXCEPT ![BookmarkKey] = ReadPosition]
                    /\ lastDrop' = [lastDrop EXCEPT ![current_book_path] = ReadPosition]
                    /\ dropPos' = Position
                    /\ UNCHANGED <<current_view, selected_index>>
                    /\ UNCHANGED <<sharedVars, pagVars, epubVars, cbzVars>>
                [] option = "Go to Bookmark" /\ bm = NoBookmark ->
                    /\ UNCHANGED <<current_view, selected_index, bookmarks,
                                   lastDrop, dropPos>>
                    /\ UNCHANGED <<sharedVars, pagVars, epubVars, cbzVars>>
                [] option = "Go to Bookmark" /\ bm # NoBookmark ->
                    /\ UNCHANGED <<current_view, selected_index, bookmarks,
                                   lastDrop, dropPos>>
                    /\ UNCHANGED <<canvasH, wrapW, built, ready, laidOut, cbzVars>>
                    /\ IF ~IsEpub
                       THEN UNCHANGED <<buffer, pages, current_chapter,
                                        current_page, pending, raised, lastOp,
                                        lastPaged, pagedH, memo>>
                       ELSE IF ~ready \/ bm.chap = None
                       THEN /\ raised' = TRUE
                            /\ lastOp' = "error"
                            /\ UNCHANGED <<buffer, pages, current_chapter,
                                           current_page, pending, lastPaged,
                                           pagedH, memo>>
                       ELSE /\ Answered
                            /\ SetReader(ApplyBookmark(Reader, bm))
                            /\ lastOp' = GotoBranch(Reader, bm)
                            /\ UNCHANGED raised
                [] option = "Cancel" ->
                    /\ UNCHANGED <<current_view, selected_index, bookmarks,
                                   lastDrop, dropPos>>
                    /\ UNCHANGED <<sharedVars, pagVars, epubVars, cbzVars>>

\* DisplayBase.load_chapter(chap), with any index.
LoadChapter ==
    /\ ready
    /\ Answered
    /\ \E index \in -1..Len(Book) :
          SetReader(load_chapter(Reader, index, "call"))
    /\ lastOp' = "load_chapter"
    /\ UNCHANGED <<cbzVars, appVars, docVars>>
    /\ UNCHANGED <<canvasH, wrapW, built, ready, laidOut, raised>>

\* The positions Drop Bookmark can have stored for the book: a page of a
\* chapter at one of the heights the text area can have.
Droppable ==
    UNION { {[chap |-> c[1], page |-> p] :
                p \in 0..Max(0, Len(BuildPages(Book[c[1] + 1], c[2], c[3])) - 1)} :
            c \in (0..Len(Book) - 1) \X EpubWidths \X EpubHeights }

\* Go to Bookmark as the reader sees it: the three calls of
\* _select_modal_option, with a bookmark of the store.
RecallBookmark ==
    /\ ready
    /\ Answered
    /\ \E bm \in Droppable :
          /\ SetReader(ApplyBookmark(Reader, bm))
          /\ lastOp' = GotoBranch(Reader, bm)
    /\ UNCHANGED <<cbzVars, appVars, docVars>>
    /\ UNCHANGED <<canvasH, wrapW, built, ready, laidOut, raised>>

\* An open EPUB reader with every operation that moves it: the page turns,
\* load_chapter and the recall of a bookmark.
ReaderNext ==
    \/ ResizeTextCanvas
    \/ Layout
    \/ FirePending
    \/ Answered /\ NextPage
    \/ Answered /\ PrevPage
    \/ LoadChapter
    \/ RecallBookmark

ReaderSpec == EpubInit /\ [][ReaderNext]_vars

\* The sets of chapters whose content cannot be read.
Unreadables == {{0}, {1}, {2}}

\* A reader of a book with unreadable chapters.
FaultInit ==
    /\ buffer = <<>>
    /\ pages = <<>>
    /\ canvasH \in EpubHeights
    /\ wrapW \in EpubWidths
    /\ built = "no"
    /\ EpubIdle
    /\ CbzIdle
    /\ AppIdle
    /\ unreadable \in Unreadables
    /\ arg = <<>>
    /\ result = NoResult

FaultSpec == FaultInit /\ [][ReaderNext]_vars

\* The directions the encoder reports to on_rotate.
Directions == {"CLOCKWISE", "COUNTERCLOCKWISE"}

\* DisplayBase.next_page and prev_page: the call goes to the open reader.
DisplayNextPage ==
    \/ EpubOpen /\ Answered /\ NextPage
    \/ CbzOpen /\ CbzNextPage

DisplayPrevPage ==
    \/ EpubOpen /\ Answered /\ PrevPage
    \/ CbzOpen /\ CbzPrevPage

\* The step of the highlighted option for a direction.
Delta(direction) == IF direction = "CLOCKWISE" THEN 1 ELSE -1

\* on_rotate(direction) of show_reader: the menu takes the rotation while it
\* is open, the reader takes it otherwise.
OnRotateTurnsPagesInMenu(direction) ==
    /\ current_view = "reader"
    /\ IF direction = "CLOCKWISE" THEN DisplayNextPage ELSE DisplayPrevPage

OnRotate(direction) ==
    /\ current_view = "reader"
    /\ IF modal_active
       THEN /\ ModalRotate
            /\ modal_index' = (modal_index + Delta(direction)) % Len(ModalOptions)
       ELSE IF direction = "CLOCKWISE" THEN DisplayNextPage ELSE DisplayPrevPage

\* The events of the application.  Of the comic reader the events the user
\* and the timers make are followed here; the threads of its workers, which
\* write neither the position nor a field of the application, are followed
\* in CbzSpec.
AppNext ==
    \/ MoveSelection
    \/ OpenSelection
    \/ OpenModal
    \/ \E direction \in Directions : OnRotate(direction)
    \/ SelectModalOption
    \/ EpubOpen /\ ResizeTextCanvas
    \/ EpubOpen /\ Layout
    \/ EpubOpen /\ FirePending
    \/ EpubOpen /\ Answered /\ NextPage
    \/ EpubOpen /\ Answered /\ PrevPage
    \/ CbzOpen /\ BootFire
    \/ CbzOpen /\ CbzNextPage
    \/ CbzOpen /\ CbzPrevPage
    \/ CbzOpen /\ LoadCurrentImage

AppSpec == AppInit /\ [][AppNext]_vars

----------------------------------------------------------------------------
\* ProjSpec: the copy of the styles in display_page, applied to every page
\* and every pair of style ranges over a few offsets.  A range is
\* [tag, a, b]: the characters from offset a up to offset b carry the tag.

Offsets == {0, 3, 5, 10, 12, 15}

Spans == {sp \in Offsets \X Offsets : sp[1] < sp[2]}

\* self._buffer.compare(rend, "<=", start) or compare(rstart, ">=", end)
Skipped(r, start, end) == r.b <= start \/ r.a >= end

\* len(self._buffer.get(start, overlap_start))
NBeforeFromBufferStart(start, overlap_start) == overlap_start
NBefore(start, overlap_start) == overlap_start - start

\* One pass of the loop over the ranges of a tag: the range tag_add gets in
\* the visible text, or none.
CopyRange(r, start, end) ==
    IF Skipped(r, start, end) THEN {}
    ELSE LET overlap_start == IF r.a > start THEN r.a ELSE start
             overlap_end == IF r.b < end THEN r.b ELSE end
             n_before == NBefore(start, overlap_start)
             n_len == overlap_end - overlap_start
         IN  IF n_len <= 0 THEN {}
             ELSE {[tag |-> r.tag, a |-> n_before, b |-> n_before + n_len]}

CopyFormatting(ranges, start, end) ==
    UNION {CopyRange(r, start, end) : r \in ranges}

ProjInit ==
    /\ \E pg \in Spans, bd \in Spans, hd \in Spans :
          arg = [start |-> pg[1], end |-> pg[2],
                 ranges |-> {[tag |-> "bold", a |-> bd[1], b |-> bd[2]],
                             [tag |-> "h1", a |-> hd[1], b |-> hd[2]]}]
    /\ result = NoResult
    /\ unreadable = {}
    /\ buffer = <<>>
    /\ pages = <<>>
    /\ canvasH = WINDOW_HEIGHT
    /\ wrapW \in EpubWidths
    /\ built = "no"
    /\ EpubIdle
    /\ CbzIdle
    /\ AppIdle

\* display_page copies the formatting of the page into the visible text.
ProjCopy ==
    /\ ~result.done
    /\ result' = [done |-> TRUE,
                  value |-> CopyFormatting(arg.ranges, arg.start, arg.end)]
    /\ UNCHANGED <<sharedVars, pagVars, epubVars, cbzVars, appVars, unreadable, arg>>

ProjNext == ProjCopy

ProjSpec == ProjInit /\ [][ProjNext]_vars

----------------------------------------------------------------------------
\* InlineSpec: insert_inline, followed from a selected block node down to a
\* text run.  The argument is the path of element names from the block node
\* (first) to the parent of the text run (last).

INLINE_BOLD == {"strong", "b"}
INLINE_ITALIC == {"em", "i"}

TagNames == {"p", "h1", "h2", "h3", "span"} \cup INLINE_BOLD \cup INLINE_ITALIC

MaxDepth == 4

RECURSIVE Paths(_)
Paths(n) ==
    IF n = 0 THEN {<<>>}
    ELSE LET shorter == Paths(n - 1)
         IN  shorter \cup {Append(path, t) : path \in shorter, t \in TagNames}

\* [t for t in new_tags if t != tag]
Without(tags, tag) == SelectSeq(tags, LAMBDA t : t # tag)

Has(tags, tag) == \E i \in 1..Len(tags) : tags[i] = tag

\* if tagname in INLINE_BOLD: ...
BoldKeepsItalic(new_tags) == Append(new_tags, "bold")
Bold(new_tags) ==
    IF Has(new_tags, "italic")
    THEN Append(Without(new_tags, "italic"), "bold_italic")
    ELSE Append(new_tags, "bold")

\* if tagname in INLINE_ITALIC: ...
Italic(new_tags) ==
    IF Has(new_tags, "bold")
    THEN Append(Without(new_tags, "bold"), "bold_italic")
    ELSE Append(new_tags, "italic")

\* The new_tags insert_inline hands to the children of an element.
NewTags(active_tags, tagname) ==
    LET bolded == IF tagname \in INLINE_BOLD THEN Bold(active_tags)
                  ELSE active_tags
    IN  IF tagname \in INLINE_ITALIC THEN Italic(bolded) ELSE bolded

\* The active_tags of a text run at the end of a path.
RECURSIVE insert_inline(_, _)
insert_inline(path, active_tags) ==
    IF path = <<>> THEN active_tags
    ELSE insert_inline(Tail(path), NewTags(active_tags, Head(path)))

InlineInit ==
    /\ arg \in Paths(MaxDepth) \ {<<>>}
    /\ result = NoResult
    /\ unreadable = {}
    /\ buffer = <<>>
    /\ pages = <<>>
    /\ canvasH = WINDOW_HEIGHT
    /\ wrapW \in EpubWidths
    /\ built = "no"
    /\ EpubIdle
    /\ CbzIdle
    /\ AppIdle

\* insert_html_into_buffer calls insert_inline(blk) and the text run is
\* handed to _insert_text_with_tags with its active_tags.
InsertInline ==
    /\ ~result.done
    /\ result' = [done |-> TRUE, value |-> insert_inline(arg, <<>>)]
    /\ UNCHANGED <<sharedVars, pagVars, epubVars, cbzVars, appVars, unreadable, arg>>

InlineNext == InsertInline

InlineSpec == InlineInit /\ [][InlineNext]_vars

----------------------------------------------------------------------------
\* TocSpec: _insert_toc_list over a table of contents.  A list is a record
\* [kind, items]; an li is a record [own, label, subs]: its own leading
\* element ("a" for a link, "span" for plain text) with its text, followed
\* by its nested lists.  A text is the sequence of the labels it
\* concatenates; an emitted line is its count of leading spaces and its
\* text.

Leaves == [own : {"a", "span"}, label : {"S1", "S2"}, subs : {<<>>}]

LeafLists ==
    [kind : {"ol", "ul"},
     items : {<<x>> : x \in Leaves} \cup {<<x, y>> : x \in Leaves, y \in Leaves}]

Chapters ==
    [own : {"a", "span"}, label : {"Chapter"},
     subs : {<<>>} \cup {<<l>> : l \in LeafLists}
                   \cup {<<l, k>> : l \in LeafLists, k \in LeafLists}]

ChapterLists == [kind : {"ol", "ul"}, items : {<<x>> : x \in Chapters}]

Parts ==
    [own : {"a", "span"}, label : {"Part"},
     subs : {<<>>} \cup {<<l>> : l \in ChapterLists}]

TocLists == [kind : {"ol", "ul"}, items : {<<x>> : x \in Parts}]

RECURSIVE FirstLink(_)
RECURSIVE FirstLinkInItems(_)
RECURSIVE FirstLinkInLists(_)
\* li.find("a"): the first link among the descendants, in document order.
FirstLink(li) ==
    IF li.own = "a" THEN <<li.label>> ELSE FirstLinkInLists(li.subs)

FirstLinkInItems(items) ==
    IF items = <<>> THEN <<>>
    ELSE LET found == FirstLink(Head(items))
         IN  IF found # <<>> THEN found ELSE FirstLinkInItems(Tail(items))

FirstLinkInLists(lists) ==
    IF lists = <<>> THEN <<>>
    ELSE LET found == FirstLinkInItems(Head(lists).items)
         IN  IF found # <<>> THEN found ELSE FirstLinkInLists(Tail(lists))

RECURSIVE GetText(_)
RECURSIVE GetTextOfItems(_)
RECURSIVE GetTextOfLists(_)
\* li.get_text(strip=True): every string below the li, concatenated.
GetText(li) == <<li.label>> \o GetTextOfLists(li.subs)

GetTextOfItems(items) ==
    IF items = <<>> THEN <<>>
    ELSE GetText(Head(items)) \o GetTextOfItems(Tail(items))

GetTextOfLists(lists) ==
    IF lists = <<>> THEN <<>>
    ELSE GetTextOfItems(Head(lists).items) \o GetTextOfLists(Tail(lists))

\* li.find("ol", recursive=False): the first direct child of the kind.
FindList(li, kind) ==
    LET at == {i \in 1..Len(li.subs) : li.subs[i].kind = kind}
    IN  IF at = {} THEN <<>>
        ELSE <<li.subs[CHOOSE i \in at : \A j \in at : i <= j]>>

\* " " * (indent * 4) + text
TocLine(indent, text) == [spaces |-> indent * 4, text |-> text]

RECURSIVE InsertTocItems(_, _)
\* The lines _insert_toc_list appends to the buffer for the li elements of
\* a list.
InsertTocItems(items, indent) ==
    IF items = <<>> THEN <<>>
    ELSE LET li == Head(items)
             link == FirstLink(li)
             text == IF link # <<>> THEN link ELSE GetText(li)
             sub_ol == FindList(li, "ol")
             sub_ul == FindList(li, "ul")
             nested == IF sub_ol # <<>>
                       THEN InsertTocItems(sub_ol[1].items, indent + 1)
                       ELSE IF sub_ul # <<>>
                            THEN InsertTocItems(sub_ul[1].items, indent + 1)
                            ELSE <<>>
         IN  <<TocLine(indent, text)>> \o nested
                \o InsertTocItems(Tail(items), indent)

_insert_toc_list(list_tag, indent) == InsertTocItems(list_tag.items, indent)

TocInit ==
    /\ arg \in TocLists
    /\ result = NoResult
    /\ unreadable = {}
    /\ buffer = <<>>
    /\ pages = <<>>
    /\ canvasH = WINDOW_HEIGHT
    /\ wrapW \in EpubWidths
    /\ built = "no"
    /\ EpubIdle
    /\ CbzIdle
    /\ AppIdle

\* _insert_toc_block: self._insert_toc_list(list_tag, indent=0)
InsertTocList ==
    /\ ~result.done
    /\ result' = [done |-> TRUE, value |-> _insert_toc_list(arg, 0)]
    /\ UNCHANGED <<sharedVars, pagVars, epubVars, cbzVars, appVars, unreadable, arg>>

TocNext == InsertTocList

TocSpec == TocInit /\ [][TocNext]_vars

----------------------------------------------------------------------------
\* Claims about the paginator (PagSpec)

\* The page list ps partitions the offsets [0, n).
Partition(ps, n) ==
    /\ Len(ps) >= 1
    /\ ps[1].start = 0
    /\ \A i \in 1..Len(ps) : ps[i].start <= ps[i].end
    /\ \A i \in 1..Len(ps) - 1 : ps[i].end = ps[i + 1].start
    /\ ps[Len(ps)].end = n

\* C1 as stated: for every chapter buffer and every viewport height the page
\* list is a partition of the flattened stream: it starts at 0, is
\* contiguous, ends at the end of the stream and has at least one page.
C1_PartitionEveryBuffer ==
    built # "no" => built = "yes" /\ Partition(pages, StreamLen(buffer))

\* C1 as amended: for every non-empty chapter buffer and every viewport
\* height the page list is a partition of the flattened stream; for an empty
\* buffer it is the one page ("1.0", "end"), which ends one character after
\* the empty stream, behind the text widget's own final newline.
C1_Partition ==
    built # "no" =>
        /\ built = "yes"
        /\ IF buffer # <<>>
           THEN Partition(pages, StreamLen(buffer))
           ELSE pages = <<[start |-> 0, end |-> StreamLen(buffer) + 1]>>

\* C1's case: a buffer paginated into several pages at a viewport whose
\* usable height is negative.
C1_Witness ==
    /\ built = "yes"
    /\ VisibleHeight(canvasH) < 0
    /\ Len(buffer) >= 2
    /\ Len(pages) >= 3

\* The height _build_pages measures for the whole buffer: the sum of the
\* added_height of its chunks.
RECURSIVE MeasuredFrom(_, _, _)
MeasuredFrom(buf, w, idx) ==
    IF idx >= BufEnd(buf) THEN 0
    ELSE AddedHeight(buf, w, idx) + MeasuredFrom(buf, w, ChunkEnd(buf, idx))

\* A chapter of a single block that is higher than the usable height.
TallSingleBlock ==
    /\ Len(buffer) = 1
    /\ MeasuredFrom(buffer, wrapW, 0) > Budget(canvasH)

C7_TerminatesPagesNonEmpty ==
    built # "no" =>
        /\ built = "yes"
        /\ buffer # <<>> =>
             \A i \in 1..Len(pages) :
                /\ pages[i].end > pages[i].start
                /\ AddedHeight(buffer, wrapW, pages[i].start) > Budget(canvasH)
                     => pages[i].end = ChunkEnd(buffer, pages[i].start)

\* C7's case: a later page of a run starts with a chunk that exceeds the
\* budget on its own.
C7_Witness ==
    /\ built = "yes"
    /\ Len(pages) >= 2
    /\ AddedHeight(buffer, wrapW, pages[2].start) > Budget(canvasH)
    /\ pages[2].end = ChunkEnd(buffer, pages[2].start)

----------------------------------------------------------------------------
\* Claims about the reader session (Spec, FairSpec)

\* The pagination a backward crossing of prev_page() triggered has just
\* completed: inside the handler when the text area was laid out, in the
\* deferred _finish_paging otherwise.
PrevCrossCompleted ==
    /\ lastPaged.origin = "prev"
    /\ \/ lastOp = "prev_cross" /\ laidOut
       \/ lastOp = "finish"

\* C4: when prev_page() is invoked at page 0 of chapter c > 0, then once the
\* pagination of chapter c-1 it triggered has completed, synchronously or
\* deferred, the session is at chapter c-1 on that chapter's last page.
C4_PrevLandsOnLastPage ==
    PrevCrossCompleted =>
        /\ current_chapter = lastPaged.index
        /\ current_page = Len(pages) - 1

\* The page list in use was built for another viewport than the current one.
StalePages == ready /\ pages # <<>> /\ pagedH # canvasH

\* C5: whenever the viewport of an open reader changes, the page list of
\* the current chapter is eventually recomputed for the new viewport: the
\* session does not keep a page list computed for an older viewport.
C5_ReflowOnResize == StalePages ~> ~StalePages

\* A pagination completes in this step.
Paginates ==
    \/ pending # <<>> /\ Head(pending).op = "finish" /\ lastOp' = "finish"
    \/ laidOut /\ lastOp' \in {"load", "next_cross", "prev_cross"}

IsNext(op) == op \in {"next_turn", "next_cross", "next_noop"}
IsPrev(op) == op \in {"prev_turn", "prev_cross", "prev_noop"}

AtLastPageOfLastChapter ==
    /\ ready
    /\ pages # <<>>
    /\ current_page = Len(pages) - 1
    /\ current_chapter = Len(Book) - 1

AtFirstPageOfFirstChapter ==
    /\ ready
    /\ pages # <<>>
    /\ current_page = 0
    /\ current_chapter = 0

\* C9: next_page() on the last page of the last chapter leaves chapter
\* index, page index, page list and buffer as they are and starts no
\* chapter load.
C9_NextAtEndNoOp ==
    [][(IsNext(lastOp') /\ AtLastPageOfLastChapter) =>
          UNCHANGED <<current_chapter, current_page, pages, buffer, pending,
                      lastPaged>>]_vars

\* C9's case: next_page() has run on the last page of the last chapter, a
\* chapter of several pages.
C9_Witness ==
    /\ lastOp = "next_noop"
    /\ AtLastPageOfLastChapter
    /\ Len(pages) >= 2

\* C10: prev_page() on page 0 of chapter 0 leaves chapter index, page index,
\* page list and buffer as they are and starts no chapter load.
C10_PrevAtStartNoOp ==
    [][(IsPrev(lastOp') /\ AtFirstPageOfFirstChapter) =>
          UNCHANGED <<current_chapter, current_page, pages, buffer, pending,
                      lastPaged>>]_vars

\* C10's case: prev_page() has run on page 0 of chapter 0, a chapter of
\* several pages.
C10_Witness ==
    /\ lastOp = "prev_noop"
    /\ AtFirstPageOfFirstChapter
    /\ Len(pages) >= 2

----------------------------------------------------------------------------
\* Claims about the CBZ loader

Latest == Len(workers)

\* C2: a worker's result is committed to the display only if no newer load
\* request was issued after that worker's request: the image on the display
\* was put there by the request that was the latest one at that time.
C2_OnlyLatestCommits == shown.req = shown.latest

\* The user has stopped, no timer is due, and the entry of the last request
\* can be decoded.
Settled ==
    /\ quiet
    /\ ~boot
    /\ ~update_id
    /\ Latest >= 1
    /\ workers[Latest].idx \notin bad

ShowsLast == Latest >= 1 /\ shown.idx = workers[Latest].idx

\* C3: once the load requests have been issued and no navigation or resize
\* follows, and the last requested index can be decoded, the display
\* eventually shows the image of the last requested index and shows it from
\* then on, whether or not the workers of the earlier requests finish.
C3_LastRequestShown == Settled ~> []ShowsLast

\* C3's case: three requests, every worker has ended, an earlier request
\* was for another index, and the last request's image is on the display.
C3_Witness ==
    /\ Settled
    /\ Latest = 3
    /\ shown.req = 3
    /\ ShowsLast
    /\ \A w \in 1..3 : workers[w].pc = "done"
    /\ \E w \in 1..2 : workers[w].idx # workers[3].idx

\* C15: CBZ navigation never waits for a worker: whatever the workers are
\* doing, next_page() and prev_page() within bounds can run, move the current
\* index at once and leave one delayed load due.
C15_NavigationNeverWaits ==
    (~quiet /\ CanRequest) =>
        /\ current_index + 1 < Len(images) =>
             ENABLED (/\ CbzNextPage
                      /\ current_index' = current_index + 1
                      /\ load_timers' = 1)
        /\ current_index > 0 =>
             ENABLED (/\ CbzPrevPage
                      /\ current_index' = current_index - 1
                      /\ load_timers' = 1)

\* C15's case: the worker of the first request is still in its decode, the
\* user has moved on to the next image, and the request made after that has
\* put its image on the display.
C15_Witness ==
    /\ workers # <<>>
    /\ workers[1].pc = "running"
    /\ workers[1].idx = 0
    /\ current_index = 1
    /\ shown.req = 2
    /\ shown.idx = 1

\* A timer expiry: _load_current_image runs.
TimerExpires == load_timers' < load_timers

\* C16 as stated: at most one delayed load is due, and once a key or resize
\* event has come since the last expiry exactly one is due, so that the burst
\* starts exactly one worker.
C16_BurstStartsOneWorker ==
    /\ load_timers <= 1
    /\ burst => load_timers = 1

\* C16 as amended: at most one delayed load is due at any time; a resize
\* event and a navigation that changes the index leave exactly one due, a
\* navigation at either end of the archive schedules nothing; an expiry
\* starts exactly one worker, for the current index, when the archive has an
\* image, and none when it has none.
C16_OnePendingLoad ==
    /\ [](load_timers <= 1)
    /\ [][/\ Configure => load_timers' = 1
          /\ current_index' # current_index => load_timers' = 1
          /\ (CbzNextPage /\ ~NextInBounds) => load_timers' = load_timers
          /\ (CbzPrevPage /\ current_index = 0) => load_timers' = load_timers
          /\ TimerExpires =>
               /\ load_timers' = 0
               /\ IF images = <<>>
                  THEN workers' = workers
                  ELSE /\ Len(workers') = Len(workers) + 1
                       /\ workers'[Len(workers')].idx = current_index
                       /\ workers'[Len(workers')].pc = "created"]_vars

\* C16's case: two index changes and then the expiry of the one timer: the
\* second request is for the index the burst ended on, not the one between.
C16_Witness ==
    /\ Len(workers) = 2
    /\ workers[1].idx = 1
    /\ workers[2].idx = 1
    /\ ~burst
    /\ load_timers = 0
    /\ current_index = 1

\* The workers whose thread has started and not ended.
Started == {w \in 1..Len(workers) : workers[w].pc \in {"running", "scheduled"}}

\* C17: each new load request supersedes the earlier ones: at most one
\* started worker holds a cancellation flag that is not set, and every
\* started worker of an earlier request holds a flag that is set.
C17_NewRequestSupersedes ==
    /\ Cardinality({w \in Started : workers[w].ev \notin set_events}) <= 1
    /\ \A w \in Started : w < Latest => workers[w].ev \in set_events

\* A worker whose read or decode has failed.
SomeFailed ==
    \E w \in 1..Len(workers) : workers[w].idx \in bad /\ workers[w].pc = "done"

\* The read or decode of a worker fails in this step.
FailStep ==
    \E w \in 1..Len(workers) :
        /\ workers[w].pc = "running"
        /\ workers[w].idx \in bad
        /\ workers'[w].pc # "running"

\* C18: a failure while reading or decoding an entry stays inside the
\* worker: the step changes neither the current index nor the display nor
\* the timers, an entry that cannot be decoded never reaches the display,
\* navigation stays possible after a failure, and a later request whose
\* decode succeeds is still committed.
C18_FailureIsAbsorbed ==
    /\ [](shown.idx \notin bad)
    /\ []((SomeFailed /\ ~quiet /\ CanRequest /\ current_index > 0) =>
             ENABLED (CbzPrevPage /\ current_index' = current_index - 1))
    /\ [][FailStep => UNCHANGED <<current_index, update_id, load_timers, shown,
                                  cancel_worker, set_events, images, quiet>>]_vars
    /\ ((SomeFailed /\ Settled) ~> ShowsLast)

\* C18's case: the decode of the second image has failed, the user has gone
\* back, and the request made after the failure has put the first image on
\* the display.
C18_Witness ==
    /\ SomeFailed
    /\ Settled
    /\ shown.req = Latest
    /\ \E w \in 1..Latest - 1 : workers[w].idx \in bad /\ workers[w].pc = "done"
    /\ ShowsLast

\* C19: after the decode for the current page has failed, the display does
\* not go on showing the image and label of another page.
C19_FailedPageNotStale ==
    (/\ Latest >= 1
     /\ ~boot
     /\ load_timers = 0
     /\ workers[Latest].pc = "done"
     /\ workers[Latest].idx = current_index
     /\ current_index \in bad)
    => shown.idx \notin (0..Len(images) - 1) \ {current_index}

----------------------------------------------------------------------------
\* Claims about positions and bookmarks.

Stored == bookmarks[current_book_path]

\* C12: applying a recalled bookmark (chapter c, page p) loads chapter c,
\* paginates it again and ends at page min(p, n - 1) of chapter c, n being
\* the fresh page count: once the recall and its pagination are over, no
\* error has been raised and the page index is in range.
C12_RecallEndsAtStoredPage ==
    (/\ EpubOpen
     /\ Stored # NoBookmark
     /\ lastPaged.origin = "bookmark"
     /\ lastOp \in {"goto", "goto_clamped", "finish"}
     /\ pending = <<>>)
    => /\ ~raised
       /\ current_chapter = Stored.chap
       /\ pages # <<>>
       /\ current_page = Min(Stored.page, Len(pages) - 1)

\* C13: the store holds at most one entry per book and the last write wins:
\* whatever Drop Bookmark actions were made, with returns to the library and
\* other books opened in between, the bookmark of book b is the position the
\* most recent Drop Bookmark made while b was open has recorded, a Drop
\* Bookmark changes the entry of the open book only, and no other step
\* changes the store.
C13_LastWritePerBook ==
    /\ [](bookmarks = lastDrop)
    /\ [][bookmarks' # bookmarks =>
             /\ current_view = "reader"
             /\ modal_active
             /\ ModalOptions[modal_index + 1] = "Drop Bookmark"
             /\ bookmarks' = [bookmarks EXCEPT ![current_book_path] = ReadPosition]]_vars

\* C13's case: a bookmark was dropped in the comic and, in the session of
\* the EPUB that is open now, one on its second page: each book has its own
\* entry, and the drop in one book has left the entry of the other alone.
C13_Witness ==
    /\ EpubOpen
    /\ ~modal_active
    /\ ModalOptions[modal_index + 1] = "Drop Bookmark"
    /\ bookmarks[1] = [chap |-> None, page |-> None]
    /\ bookmarks[0] = [chap |-> 0, page |-> 1]
    /\ dropPos = bookmarks[0]
    /\ current_page = 1

\* Go to Bookmark is taken in this step, the bookmark having been dropped
\* since the book was opened and the reader having answered all before.
GoToDropped ==
    /\ current_view = "reader"
    /\ modal_active
    /\ ModalOptions[modal_index + 1] = "Go to Bookmark"
    /\ dropPos # NoBookmark
    /\ IsEpub => laidOut /\ pending = <<>>
    /\ modal_active' # modal_active

\* C14: for any open book, EPUB or CBZ, with an unchanged viewport: after a
\* bookmark was dropped at a position and the reader was moved to any other
\* position of the book, Go to Bookmark brings the reader back to exactly
\* the position it had when the bookmark was dropped.
C14_GoToBookmarkReturns ==
    [][GoToDropped => Position' = dropPos]_vars

----------------------------------------------------------------------------
\* Claims about the views of the application.

\* The view the application is in.
View ==
    IF current_view = "library" THEN "Library"
    ELSE IF modal_active THEN "ModalOpen"
    ELSE "Reader"

\* C20: the view is always one of Library, Reader and ModalOpen and is
\* Library at the start; ModalOpen is entered only from Reader, by a press;
\* Reader is entered from Library only by a press on the selected item; an
\* accepted press in ModalOpen leads to Library exactly when the highlighted
\* option is Back to Library and to Reader for every other option, and
\* nothing else leaves ModalOpen; no step leads from Library to ModalOpen.
C20_ViewStateMachine ==
    /\ View = "Library"
    /\ [](/\ current_view \in {"library", "reader"}
          /\ modal_active \in BOOLEAN
          /\ current_view = "library" => ~modal_active)
    /\ [][/\ (View # "ModalOpen" /\ View' = "ModalOpen") =>
                (View = "Reader" /\ OpenModal)
          /\ (View = "Library" /\ View' # "Library") =>
                (/\ View' = "Reader"
                 /\ OpenSelection
                 /\ current_book_path' = selected_index)
          /\ (View = "ModalOpen" /\ View' # "ModalOpen") => SelectModalOption
          /\ SelectModalOption =>
                View' = IF ModalOptions[modal_index + 1] = "Back to Library"
                        THEN "Library"
                        ELSE "Reader"]_vars

\* C20's case: Back to Library was taken in the menu of an open book, and the
\* application shows the library again.
C20_Witness ==
    /\ View = "Library"
    /\ current_book_path # None
    /\ ModalOptions[modal_index + 1] = "Back to Library"

----------------------------------------------------------------------------
\* Claims about the encoder.

\* What next_page and prev_page make of the position of the open reader.
TurnedForward ==
    IF IsEpub
    THEN LET turned == next_page(Reader)
         IN  /\ current_page' = turned.page
             /\ current_chapter' = turned.chapter
             /\ pages' = turned.pages
    ELSE current_index' = Min(current_index + 1, Max(0, Len(images) - 1))

TurnedBack ==
    IF IsEpub
    THEN LET turned == prev_page(Reader)
         IN  /\ current_page' = turned.page
             /\ current_chapter' = turned.chapter
             /\ pages' = turned.pages
    ELSE current_index' = Max(current_index - 1, 0)

\* C21: while the menu is open a rotation changes the highlighted option
\* only, by +1 or -1 modulo the number of options, and leaves the chapter
\* index, the page index and the page list of the reader as they are; while
\* the menu is closed in the reader view a clockwise rotation is next_page,
\* a counter-clockwise rotation is prev_page, and the highlighted option is
\* not touched.
C21_RotationGoesToMenuOrReader ==
    [][\A direction \in Directions :
         OnRotate(direction) =>
            IF modal_active
            THEN /\ modal_index' \in {(modal_index + 1) % Len(ModalOptions),
                                      (modal_index - 1) % Len(ModalOptions)}
                 /\ modal_index' # modal_index
                 /\ modal_index' \in 0..Len(ModalOptions) - 1
                 /\ UNCHANGED <<current_chapter, current_page, pages,
                                current_index, buffer, pending>>
            ELSE /\ modal_index' = modal_index
                 /\ ~modal_active'
                 /\ IF direction = "CLOCKWISE" THEN TurnedForward
                                               ELSE TurnedBack]_vars

\* C21's case: the menu of the EPUB is open on its last option, which only
\* rotations reach, and the reader stands on its second page, which a page
\* turn has reached.
C21_Witness ==
    /\ EpubOpen
    /\ modal_active
    /\ modal_index = Len(ModalOptions) - 1
    /\ lastOp = "next_turn"
    /\ current_page = 1

----------------------------------------------------------------------------
\* Claims about the conversion and the display of a chapter.

\* The ranges of the claim's example and what they project to.
ExampleRanges ==
    {[tag |-> "bold", a |-> 0, b |-> 10], [tag |-> "h1", a |-> 5, b |-> 15]}

ExampleProjected ==
    {[tag |-> "bold", a |-> 0, b |-> 7], [tag |-> "h1", a |-> 2, b |-> 9]}

\* C22: for a page [s, e) and every style range [a, b): when the range meets
\* the page, display_page applies the style to exactly the range
\* [max(a, s) - s, min(b, e) - s) of the visible text; when it does not
\* (b <= s or a >= e) nothing is applied for it.  Ranges [0,10) bold and
\* [5,15) h1 with page [3,12) give bold [0,7) and h1 [2,9), and every range
\* applied lies within [0, e - s).
C22_StylesProjectOntoPage ==
    result.done =>
        /\ \A r \in arg.ranges :
              LET applied == {q \in result.value : q.tag = r.tag}
              IN  IF r.b <= arg.start \/ r.a >= arg.end
                  THEN applied = {}
                  ELSE applied = {[tag |-> r.tag,
                                   a |-> Max(r.a, arg.start) - arg.start,
                                   b |-> Min(r.b, arg.end) - arg.start]}
        /\ \A q \in result.value :
              0 <= q.a /\ q.a < q.b /\ q.b <= arg.end - arg.start
        /\ (arg.ranges = ExampleRanges /\ arg.start = 3 /\ arg.end = 12) =>
              result.value = ExampleProjected

\* C22's case: the page [3, 12) of the example has been displayed with the
\* example's two ranges.
C22_Witness ==
    /\ result.done
    /\ arg.ranges = ExampleRanges
    /\ arg.start = 3
    /\ arg.end = 12
    /\ result.value = ExampleProjected

\* The text run lies inside an element of the set.
Inside(names) == \E i \in 1..Len(arg) : arg[i] \in names

\* C23: for every nesting of bold and italic elements, of any depth and
\* order, the tags handed to a text run never hold both "bold" and
\* "italic", and a run inside at least one bold and at least one italic
\* element carries "bold_italic".
C23_BoldItalicCombined ==
    result.done =>
        /\ ~(Has(result.value, "bold") /\ Has(result.value, "italic"))
        /\ (Inside(INLINE_BOLD) /\ Inside(INLINE_ITALIC)) =>
              Has(result.value, "bold_italic")

\* C23's case: a run four elements deep, bold inside italic inside bold
\* inside italic, has got its tags.
C23_Witness ==
    /\ result.done
    /\ arg = <<"em", "b", "i", "strong">>
    /\ Has(result.value, "bold_italic")
    /\ ~Has(result.value, "italic")

\* C24: when the selected block node is itself an h1, h2 or h3 element,
\* every text run emitted for the block carries the heading style of that
\* name.
C24_HeadingBlockCarriesStyle ==
    (result.done /\ arg[1] \in {"h1", "h2", "h3"}) => Has(result.value, arg[1])

RECURSIVE EntriesOfItems(_, _)
RECURSIVE EntriesOfLists(_, _)
\* The entries of a table of contents in document order: each li at its
\* nesting depth with its own text, directly followed by the entries of
\* its nested lists.
EntriesOfItems(items, d) ==
    IF items = <<>> THEN <<>>
    ELSE <<[spaces |-> 4 * d, text |-> <<Head(items).label>>]>>
            \o EntriesOfLists(Head(items).subs, d + 1)
            \o EntriesOfItems(Tail(items), d)

EntriesOfLists(lists, d) ==
    IF lists = <<>> THEN <<>>
    ELSE EntriesOfItems(Head(lists).items, d) \o EntriesOfLists(Tail(lists), d)

\* C25: the table of contents is rendered as one line per entry, an entry
\* at nesting depth d having exactly 4*d leading spaces before its text,
\* for every depth of nested lists, in document order, the entries of a
\* nested list directly after their parent entry.
C25_TocEntriesIndentedInOrder ==
    result.done => result.value = EntriesOfItems(arg.items, 0)

\* The call load_chapter(index) of the reader.
LoadCall(index) ==
    /\ ready
    /\ Answered
    /\ SetReader(load_chapter(Reader, index, "call"))
    /\ lastOp' = "load_chapter"

\* The deferred _finish_paging(index) of a load runs.
FinishRuns(index) ==
    /\ pending # <<>>
    /\ Head(pending).op = "finish"
    /\ Head(pending).index = index
    /\ FirePending

\* The placeholder block is paginated and shown as chapter index, page 0.
PlaceholderShown(index) ==
    /\ buffer = PlaceholderBuffer
    /\ current_chapter = index
    /\ current_page = 0
    /\ Len(pages) >= 1
    /\ pages[1].start = 0
    /\ pages[Len(pages)].end >= BufEnd(PlaceholderBuffer)

\* C26: load_chapter(i) with a valid index i whose content cannot be read
\* or decoded completes the load: the buffer holds the placeholder block,
\* chapter i becomes the current chapter at page 0 with at least one page
\* over the placeholder, at once or when the deferred end of the load runs,
\* and no error is raised.
C26_UnreadableChapterLoadsPlaceholder ==
    [][\A index \in unreadable :
          /\ LoadCall(index) =>
                /\ buffer' = PlaceholderBuffer
                /\ ~raised'
                /\ IF laidOut THEN PlaceholderShown(index)'
                   ELSE pending' = Append(pending, [op |-> "finish",
                                    index |-> index, origin |-> "call"])
          /\ (FinishRuns(index) /\ buffer = PlaceholderBuffer) =>
                PlaceholderShown(index)' /\ ~raised']_vars

\* C26's case: the unreadable chapter 2 was loaded by a call of load_chapter
\* and shows the placeholder.
C26_Witness ==
    /\ unreadable = {2}
    /\ lastOp = "load_chapter"
    /\ lastPaged = [index |-> 2, origin |-> "call", again |-> FALSE]
    /\ PlaceholderShown(2)

\* The step is a page turn that schedules no load.
NoLoadScheduled == UNCHANGED <<current_index, update_id, load_timers, workers>>

\* C27: in the CBZ reader with N >= 1 images the current index lies in
\* [0, N) whatever next_page() and prev_page() were called; next_page() at
\* index N-1 and prev_page() at index 0 leave the index unchanged and
\* schedule no load; with N = 0 the index stays 0 and no worker is ever
\* started.
C27_IndexStaysInArchive ==
    /\ [](IF images = <<>>
          THEN current_index = 0 /\ workers = <<>>
          ELSE current_index \in 0..Len(images) - 1)
    /\ [][/\ (CbzNextPage /\ images # <<>> /\ current_index = Len(images) - 1)
                => NoLoadScheduled
          /\ (CbzPrevPage /\ images # <<>> /\ current_index = 0)
                => NoLoadScheduled]_vars

\* C27's case: on the last image, with no load pending and every worker
\* done, next_page() was called and nothing was scheduled.
C27_Witness ==
    /\ images # <<>>
    /\ current_index = Len(images) - 1
    /\ burst
    /\ load_timers = 0
    /\ ~update_id
    /\ Len(workers) = 2
    /\ \A w \in 1..Len(workers) : workers[w].pc = "done"

\* The deferred _finish_paging of a forward crossing runs in this step.
NextCrossFinishes ==
    /\ pending # <<>>
    /\ Head(pending).op = "finish"
    /\ Head(pending).origin = "next"
    /\ lastOp' = "finish"

UsableHeight(h) ==
    Max(1, h - 2 * PAGE_MARGIN - FooterDefault)
        - FudgeLines * LineSpace("base") - BottomMargin

\* The offsets at which the chunks of a page start.
ChunkStarts(page) ==
    {idx \in page.start..(page.end - 1) : (idx - page.start) % ChunkChars = 0}

\* The sum of the measured heights of the chunks that start at the offsets.
RECURSIVE SumOfHeights(_)
SumOfHeights(starts) ==
    IF starts = {} THEN 0
    ELSE LET idx == CHOOSE x \in starts : TRUE
         IN  AddedHeight(buffer, wrapW, idx) + SumOfHeights(starts \ {idx})

\* C29: for every page _build_pages makes of more than one chunk, the sum
\* of the measured heights of its chunks does not exceed the usable height;
\* only a page made of a single chunk, included although it does not fit,
\* exceeds it.
C29_MultiChunkPagesFit ==
    (built = "yes" /\ buffer # <<>>) =>
        \A i \in 1..Len(pages) :
            /\ Cardinality(ChunkStarts(pages[i])) > 1 =>
                  SumOfHeights(ChunkStarts(pages[i])) <= UsableHeight(canvasH)
            /\ SumOfHeights(ChunkStarts(pages[i])) > UsableHeight(canvasH) =>
                  pages[i].end = ChunkEnd(buffer, pages[i].start)

\* C29's case: a run with a page of several chunks, not the last page,
\* that fills the usable height to less than one more line.
C29_Witness ==
    /\ built = "yes"
    /\ \E i \in 1..Len(pages) :
          /\ Cardinality(ChunkStarts(pages[i])) > 1
          /\ pages[i].end < BufEnd(buffer)
          /\ SumOfHeights(ChunkStarts(pages[i])) <= UsableHeight(canvasH)
          /\ SumOfHeights(ChunkStarts(pages[i])) + LineSpace("base")
                > UsableHeight(canvasH)

\* The callbacks a handler left pending run, in order.
RECURSIVE RunPending(_)
RunPending(s) ==
    IF s.pending = <<>> THEN s
    ELSE LET cb == Head(s.pending)
             t == [s EXCEPT !.pending = Tail(s.pending)]
         IN  RunPending(IF cb.op = "load"
                        THEN load_chapter(t, cb.index, cb.origin)
                        ELSE finish_paging(t, cb.index, cb.origin))

PositionOf(s) == <<s.chapter, s.page>>

\* The reader shows a page and has no callback pending.
AtRest == ready /\ pages # <<>> /\ pending = <<>>

\* C30: next_page() and prev_page() are mutual inverses on the position of
\* the reader: from any position but the last page of the last chapter,
\* next_page() and then prev_page() return to the same chapter and page;
\* from any position but page 0 of chapter 0, prev_page() and then
\* next_page() do, also when the pair crosses a chapter boundary.
C30_NextPrevInverse ==
    AtRest =>
        /\ ~AtLastPageOfLastChapter =>
              PositionOf(RunPending(prev_page(RunPending(next_page(Reader)))))
                 = PositionOf(Reader)
        /\ ~AtFirstPageOfFirstChapter =>
              PositionOf(RunPending(next_page(RunPending(prev_page(Reader)))))
                 = PositionOf(Reader)

----------------------------------------------------------------------------
\* Claims about the interleaving of events and deferred callbacks.

\* The buffer, the page list and the chapter index describe one chapter.
OneChapter ==
    /\ buffer = Content(current_chapter)
    /\ \E h \in EpubHeights : pages = BuildPages(buffer, wrapW, h)

\* A deferred _finish_paging(index) runs in this step.
DeferredFinish(index) ==
    /\ pending # <<>>
    /\ Head(pending).op = "finish"
    /\ Head(pending).index = index
    /\ lastOp' = "finish"

\* C31: between event handlers the buffer, the page list and the current
\* chapter index of the reader describe the same chapter, under every
\* interleaving of navigation events and deferred _finish_paging callbacks,
\* and a deferred _finish_paging(i) does not make i the current chapter
\* while the buffer holds the content of another chapter.
C31_BufferPagesChapterAgree ==
    /\ []((ready /\ pages # <<>>) => OneChapter)
    /\ [][\A index \in 0..Len(Book) - 1 :
             (DeferredFinish(index) /\ buffer # Content(index)) =>
                current_chapter' # index]_vars

\* The number of pages of a chapter under the viewport of the reader.
PagesOf(chapter) == Len(BuildPages(Content(chapter), wrapW, canvasH))

\* The immediate successor of a position in the order of reading.
Successor(chapter, page) ==
    IF page + 1 < PagesOf(chapter) THEN <<chapter, page + 1>>
    ELSE <<chapter + 1, 0>>

\* The position is the last page of the book.
EndOfBook(chapter, page) ==
    chapter = Len(Book) - 1 /\ page = PagesOf(chapter) - 1

\* C32: forward reading makes progress and skips nothing: every
\* next_page() that is not the no-op at the end of the book moves the
\* position, once the load it started has completed, to its immediate
\* successor in the order of chapters and pages.
C32_NextReachesSuccessor ==
    (AtRest /\ ~EndOfBook(current_chapter, current_page)) =>
        PositionOf(RunPending(next_page(Reader)))
            = Successor(current_chapter, current_page)

\* C33: once a CBZ reader has been closed, no worker that was still in
\* flight for it commits an image or a page label to the display, however
\* the close and the completion of the worker interleave.
C33_NoCommitAfterClose ==
    [][current_view = "library" => shown' = shown]_vars

\* C33's case: the reader was closed while a worker for the current page,
\* whose Event is not set, had its update_ui scheduled.
C33_Witness ==
    /\ current_view = "library"
    /\ \E w \in 1..Len(workers) :
          /\ workers[w].pc = "scheduled"
          /\ workers[w].idx = current_index
          /\ workers[w].ev \notin set_events

\* C34: from the moment an EPUB book is opened, every navigation event and
\* every bookmark action is safe: none is delivered to a reader whose page
\* list and position are not initialised yet, so no event fails between
\* the opening of the book and the end of the reader's delayed set-up.
C34_NoEventFailsBeforeSetup == [][EpubOpen => ~raised']_vars

====
